---- MODULE Spec2Model ----
(***************************************************************************)
(* The self dot-product scripts of mne-onboarding: the seeded generation   *)
(* of the module global ARR and the four my_func variants                  *)
(*   script_mprof.py        naive triple loop                              *)
(*   script_bcast_mprof.py  one broadcast reduction per output row         *)
(*   script_dot.py          input_array @ input_array.T                    *)
(*   my_script.py           one np.sum per output cell, np.empty result    *)
(* Arrays live in buffers (mem); an array object is a view on a buffer, so *)
(* that input_array.T shares the storage of input_array and aliasing       *)
(* between the input and a result is expressible.                          *)
(***************************************************************************)
EXTENDS Integers, Sequences, FiniteSets, TLC

\* Largest row count, column count, cell count and entry value the model draws.
MaxR == 2
MaxN == 2
MaxCells == 4
MaxEntry == 3

\* rng.integers(10, ...): entries are drawn from the half-open range [0, High).
High == 10

Entries == {v \in 0..(High - 1) : v <= MaxEntry}

\* Possible contents of a cell np.empty left unwritten, when it is read.
Junk == {-1, 0, 1}

VARIABLES
    pc,       \* "load", "error", "ready", "loop", "body", "return"
    error,    \* the exception that ended the run, or "none"
    reqR,     \* row count passed to the generator (size[0])
    reqN,     \* column count passed to the generator (size[1], n)
    mem,      \* buffer id -> [shape, data]: the live array storage
    ARR,      \* the module global: a view, or NoArray before generation
    script,   \* the script whose my_func is executing, or "none"
    result,   \* my_func's local result: a view, or NoArray
    uninit,   \* cells of result's buffer that np.empty left unwritten
    rix,      \* loop indices of my_func
    cix,
    eix,
    prev,     \* the result the previous call returned (held by the caller)
    prevBy,   \* the script whose my_func returned prev, or "none"
    entry,    \* contents of the input buffer when the current call began
    steps,    \* executions of the accumulation statement in this call
    writes    \* cells assigned by my_script.py's my_func in this call, in order

vars == <<pc, error, reqR, reqN, mem, ARR, script, result, uninit,
          rix, cix, eix, prev, prevBy, entry, steps, writes>>

NoArray == [buf |-> 0, T |-> FALSE]

----------------------------------------------------------------------------
\* numpy arrays

\* The shape of a view: the buffer's shape, reversed for a transposed view.
Shape(a) ==
    IF a.T THEN <<mem[a.buf].shape[2], mem[a.buf].shape[1]>>
    ELSE mem[a.buf].shape

\* a[i, j] with 0-based indices.
At(a, i, j) ==
    IF a.T THEN mem[a.buf].data[j + 1][i + 1]
    ELSE mem[a.buf].data[i + 1][j + 1]

\* a.T: a view on the same buffer.
Transpose(a) == [a EXCEPT !.T = ~a.T]

\* a[i]: row i as a one-dimensional array.
RowOf(a, i) == [k \in 1..Shape(a)[2] |-> At(a, i, k - 1)]

\* a[:, j]: column j as a one-dimensional array.
ColOf(a, j) == [k \in 1..Shape(a)[1] |-> At(a, k - 1, j)]

\* x * y for one-dimensional arrays of equal length.
Mul1(x, y) == [k \in 1..Len(x) |-> x[k] * y[k]]

\* np.sum of a one-dimensional integer array (0 for the empty array).
RECURSIVE Sum1(_)
Sum1(s) == IF Len(s) = 0 THEN 0 ELSE s[1] + Sum1(Tail(s))

\* Zeros with np.ones in place of np.zeros.
Ones(r, c) ==
    [shape |-> <<r, c>>, data |-> [i \in 1..r |-> [j \in 1..c |-> 1]]]

\* np.zeros((r, c), dtype=int) as buffer contents.
Zeros(r, c) ==
    [shape |-> <<r, c>>, data |-> [i \in 1..r |-> [j \in 1..c |-> 0]]]

\* np.empty((r, c), dtype=int) as buffer contents: every cell is unwritten,
\* and the value stored here for it is never the one a read of it yields.
Empty(r, c) ==
    [shape |-> <<r, c>>, data |-> [i \in 1..r |-> [j \in 1..c |-> 0]]]

\* x[:, np.newaxis] * a: the column x broadcast across the columns of a.
BroadcastMul(x, a) ==
    [shape |-> Shape(a),
     data  |-> [k \in 1..Shape(a)[1] |->
                   [j \in 1..Shape(a)[2] |-> x[k] * At(a, k - 1, j - 1)]]]

\* np.sum(p, axis=0): one sum per column of p.
SumAxis0(p) ==
    [j \in 1..p.shape[2] |-> Sum1([k \in 1..p.shape[1] |-> p.data[k][j]])]

\* MatMul with the operands exchanged: b @ a.
MatMulExchanged(a, b) ==
    [shape |-> <<Shape(b)[1], Shape(a)[2]>>,
     data  |-> [i \in 1..Shape(b)[1] |->
                   [j \in 1..Shape(a)[2] |->
                       Sum1([k \in 1..Shape(b)[2] |->
                                At(b, i - 1, k - 1) * At(a, k - 1, j - 1)])]]]

\* a @ b for two-dimensional a and b with matching inner dimension.
MatMul(a, b) ==
    [shape |-> <<Shape(a)[1], Shape(b)[2]>>,
     data  |-> [i \in 1..Shape(a)[1] |->
                   [j \in 1..Shape(b)[2] |->
                       Sum1([k \in 1..Shape(a)[2] |->
                                At(a, i - 1, k - 1) * At(b, k - 1, j - 1)])]]]

\* NewBuf handing out the buffer of the previous call's result again.
NewBufReused ==
    IF prev # NoArray THEN prev.buf
    ELSE CHOOSE b \in 1..(Cardinality(DOMAIN mem) + 1) :
            /\ b \notin DOMAIN mem
            /\ \A c \in 1..(b - 1) : c \in DOMAIN mem

\* The buffer a newly created array gets: one no live array uses.
NewBuf ==
    CHOOSE b \in 1..(Cardinality(DOMAIN mem) + 1) :
        /\ b \notin DOMAIN mem
        /\ \A c \in 1..(b - 1) : c \in DOMAIN mem

\* mem after binding buffer b to contents v.
Store(b, v) == [c \in DOMAIN mem \cup {b} |-> IF c = b THEN v ELSE mem[c]]

\* mem after a[i, j] = v.
SetCell(a, i, j, v) ==
    [mem EXCEPT ![a.buf].data[i + 1][j + 1] = v]

\* mem after a[i] = row.
SetRow(a, i, row) ==
    [mem EXCEPT ![a.buf].data[i + 1] = row]

----------------------------------------------------------------------------
\* Module load: ARR = np.random.default_rng(seed).integers(10, size=(R, n))

Init ==
    /\ pc = "load"
    /\ error = "none"
    /\ reqR = 0
    /\ reqN = 0
    /\ mem = << >>
    /\ ARR = NoArray
    /\ script = "none"
    /\ result = NoArray
    /\ uninit = {}
    /\ rix = 0
    /\ cix = 0
    /\ eix = 0
    /\ prev = NoArray
    /\ prevBy = "none"
    /\ entry = << >>
    /\ steps = 0
    /\ writes = << >>

\* BadSize rejecting a zero dimension as well.
BadSizeNonPositive(r, n) == r <= 0 \/ n <= 0

\* numpy rejects a size with a negative dimension.
BadSize(r, n) == r < 0 \/ n < 0

GenerateFails ==
    /\ pc = "load"
    /\ \E r \in -1..MaxR, n \in -1..MaxN :
        /\ BadSize(r, n)
        /\ reqR' = r
        /\ reqN' = n
    /\ pc' = "error"
    /\ error' = "ValueError"
    /\ UNCHANGED <<mem, ARR, script, result, uninit, rix, cix, eix, prev,
                   prevBy, entry, steps, writes>>

Generate ==
    /\ pc = "load"
    /\ \E r \in -1..MaxR, n \in -1..MaxN :
        /\ ~BadSize(r, n)
        /\ r * n <= MaxCells
        /\ reqR' = r
        /\ reqN' = n
        /\ \E d \in [1..r -> [1..n -> Entries]] :
            mem' = Store(NewBuf, [shape |-> <<r, n>>, data |-> d])
    /\ ARR' = [buf |-> NewBuf, T |-> FALSE]
    /\ pc' = "ready"
    /\ UNCHANGED <<error, script, result, uninit, rix, cix, eix, prev,
                   prevBy, entry, steps, writes>>

\* my_func(ARR): the parameter is bound to the module global.
input_array == ARR

----------------------------------------------------------------------------
\* script_mprof.py: the naive triple loop

\* Accumulate multiplying the row element by itself.
AccumulateSquare(old, x, y) == old + x * x

\* Accumulate with -= in place of +=.
AccumulateMinus(old, x, y) == old - x * y

\* result[rix, cix] += x * y
Accumulate(old, x, y) == old + x * y

\* The loop indices after the iteration at (r, c, e) of
\*   for rix in range(nrow): for cix in range(nrow): for eix in range(ncol)
\* or Done when that was the last iteration.
Done == <<-1, -1, -1>>

\* NextIndex with the two outer loops exchanged (rix innermost of the two).
NextIndexColumnMajor(r, c, e, nrow, ncol) ==
    IF e + 1 < ncol THEN <<r, c, e + 1>>
    ELSE IF r + 1 < nrow THEN <<r + 1, c, 0>>
    ELSE IF c + 1 < nrow THEN <<0, c + 1, 0>>
    ELSE Done

NextIndex(r, c, e, nrow, ncol) ==
    IF e + 1 < ncol THEN <<r, c, e + 1>>
    ELSE IF c + 1 < nrow THEN <<r, c + 1, 0>>
    ELSE IF r + 1 < nrow THEN <<r + 1, 0, 0>>
    ELSE Done

MprofEnter ==
    /\ pc = "ready"
    /\ script' = "script_mprof"
    /\ entry' = mem[input_array.buf]
    /\ LET nrow == Shape(input_array)[1]
           ncol == Shape(input_array)[2]
       IN  /\ mem' = Store(NewBuf, Zeros(nrow, nrow))
           /\ pc' = IF nrow >= 1 /\ ncol >= 1 THEN "loop" ELSE "return"
    /\ result' = [buf |-> NewBuf, T |-> FALSE]
    /\ uninit' = {}
    /\ rix' = 0
    /\ cix' = 0
    /\ eix' = 0
    /\ steps' = 0
    /\ writes' = << >>
    /\ UNCHANGED <<error, reqR, reqN, ARR, prev, prevBy>>

MprofStep ==
    /\ pc = "loop"
    /\ script = "script_mprof"
    /\ mem' = SetCell(result, rix, cix,
                      Accumulate(At(result, rix, cix),
                                 At(input_array, rix, eix),
                                 At(Transpose(input_array), eix, cix)))
    /\ steps' = steps + 1
    /\ LET nxt == NextIndex(rix, cix, eix,
                            Shape(input_array)[1], Shape(input_array)[2])
       IN  IF nxt = Done
           THEN pc' = "return" /\ UNCHANGED <<rix, cix, eix>>
           ELSE pc' = "loop" /\ rix' = nxt[1] /\ cix' = nxt[2] /\ eix' = nxt[3]
    /\ UNCHANGED <<error, reqR, reqN, ARR, script, result, uninit, prev,
                   prevBy, entry, writes>>

----------------------------------------------------------------------------
\* script_bcast_mprof.py: one broadcast reduction per output row

BcastEnter ==
    /\ pc = "ready"
    /\ script' = "script_bcast_mprof"
    /\ entry' = mem[input_array.buf]
    /\ LET nrow == Shape(input_array)[1]
       IN  /\ mem' = Store(NewBuf, Zeros(nrow, nrow))
           /\ pc' = IF nrow >= 1 THEN "loop" ELSE "return"
    /\ result' = [buf |-> NewBuf, T |-> FALSE]
    /\ uninit' = {}
    /\ rix' = 0
    /\ cix' = 0
    /\ eix' = 0
    /\ steps' = 0
    /\ writes' = << >>
    /\ UNCHANGED <<error, reqR, reqN, ARR, prev, prevBy>>

\* BcastRow always broadcasting row 0.
BcastRowFirst(r) ==
    SumAxis0(BroadcastMul(RowOf(input_array, 0), Transpose(input_array)))

\* np.sum(input_array[rix][:, np.newaxis] * input_array.T, axis=0)
BcastRow(r) ==
    SumAxis0(BroadcastMul(RowOf(input_array, r), Transpose(input_array)))

BcastStep ==
    /\ pc = "loop"
    /\ script = "script_bcast_mprof"
    /\ mem' = SetRow(result, rix, BcastRow(rix))
    /\ IF rix + 1 < Shape(input_array)[1]
       THEN pc' = "loop" /\ rix' = rix + 1
       ELSE pc' = "return" /\ UNCHANGED rix
    /\ UNCHANGED <<error, reqR, reqN, ARR, script, result, uninit, cix, eix,
                   prev, prevBy, entry, steps, writes>>

----------------------------------------------------------------------------
\* script_dot.py: result = input_array @ input_array.T

DotEnter ==
    /\ pc = "ready"
    /\ script' = "script_dot"
    /\ entry' = mem[input_array.buf]
    /\ pc' = "body"
    /\ result' = NoArray
    /\ uninit' = {}
    /\ rix' = 0
    /\ cix' = 0
    /\ eix' = 0
    /\ steps' = 0
    /\ writes' = << >>
    /\ UNCHANGED <<error, reqR, reqN, mem, ARR, prev, prevBy>>

DotStep ==
    /\ pc = "body"
    /\ script = "script_dot"
    /\ mem' = Store(NewBuf, MatMul(input_array, Transpose(input_array)))
    /\ result' = [buf |-> NewBuf, T |-> FALSE]
    /\ pc' = "return"
    /\ UNCHANGED <<error, reqR, reqN, ARR, script, uninit, rix, cix, eix,
                   prev, prevBy, entry, steps, writes>>

----------------------------------------------------------------------------
\* my_script.py: one np.sum per output cell, into an np.empty result

\* The cells of an r x c array.
Cells(r, c) == (0..(r - 1)) \X (0..(c - 1))

\* CellSum multiplying row rix by itself.
CellSumSameRow(r, c) ==
    Sum1(Mul1(RowOf(input_array, r), ColOf(Transpose(input_array), r)))

\* np.sum(input_array[rix] * input_array.T[:, cix])
CellSum(r, c) ==
    Sum1(Mul1(RowOf(input_array, r), ColOf(Transpose(input_array), c)))

\* NextCell with the inner loop one iteration short.
NextCellShort(r, c, nrow) ==
    IF c + 2 < nrow THEN <<r, c + 1>>
    ELSE IF r + 1 < nrow THEN <<r + 1, 0>>
    ELSE <<-1, -1>>

\* The loop indices after the iteration at (r, c) of
\*   for rix in range(nrow): for cix in range(nrow)
NextCell(r, c, nrow) ==
    IF c + 1 < nrow THEN <<r, c + 1>>
    ELSE IF r + 1 < nrow THEN <<r + 1, 0>>
    ELSE <<-1, -1>>

\* np.empty allocates without writing: the buffer's contents are whatever the
\* memory held.  No cell is read before Return, so the unspecified value of
\* a cell is chosen when Return reads it; until then the cell is in uninit.
ScriptEnter ==
    /\ pc = "ready"
    /\ script' = "my_script"
    /\ entry' = mem[input_array.buf]
    /\ LET nrow == Shape(input_array)[1]
       IN  /\ mem' = Store(NewBuf, Empty(nrow, nrow))
           /\ uninit' = Cells(nrow, nrow)
           /\ pc' = IF nrow >= 1 THEN "loop" ELSE "return"
    /\ result' = [buf |-> NewBuf, T |-> FALSE]
    /\ rix' = 0
    /\ cix' = 0
    /\ eix' = 0
    /\ steps' = 0
    /\ writes' = << >>
    /\ UNCHANGED <<error, reqR, reqN, ARR, prev, prevBy>>

ScriptStep ==
    /\ pc = "loop"
    /\ script = "my_script"
    /\ mem' = SetCell(result, rix, cix, CellSum(rix, cix))
    /\ uninit' = uninit \ {<<rix, cix>>}
    /\ writes' = Append(writes, <<rix, cix>>)
    /\ LET nxt == NextCell(rix, cix, Shape(input_array)[1])
       IN  IF nxt = <<-1, -1>>
           THEN pc' = "return" /\ UNCHANGED <<rix, cix>>
           ELSE pc' = "loop" /\ rix' = nxt[1] /\ cix' = nxt[2]
    /\ UNCHANGED <<error, reqR, reqN, ARR, script, result, eix, prev, prevBy,
                   entry, steps>>

----------------------------------------------------------------------------
\* return result: the caller receives the array; the result of the call
\* before is no longer referenced and its buffer is released.

\* Buffer contents v with every cell of u replaced by its value under f.
Fill(v, u, f) ==
    [v EXCEPT !.data = [i \in 1..v.shape[1] |-> [j \in 1..v.shape[2] |->
        IF <<i - 1, j - 1>> \in u THEN f[<<i - 1, j - 1>>] ELSE v.data[i][j]]]]

Return ==
    /\ pc = "return"
    /\ \E f \in [uninit -> Junk] :
        mem' = [b \in DOMAIN mem \ ({prev.buf} \ {result.buf, ARR.buf}) |->
                   IF b = result.buf THEN Fill(mem[b], uninit, f) ELSE mem[b]]
    /\ prev' = result
    /\ prevBy' = script
    /\ result' = NoArray
    /\ uninit' = {}
    /\ pc' = "ready"
    /\ UNCHANGED <<error, reqR, reqN, ARR, script, rix, cix, eix, entry,
                   steps, writes>>

----------------------------------------------------------------------------

Next ==
    \/ GenerateFails
    \/ Generate
    \/ MprofEnter
    \/ MprofStep
    \/ BcastEnter
    \/ BcastStep
    \/ DotEnter
    \/ DotStep
    \/ ScriptEnter
    \/ ScriptStep
    \/ Return

Spec == Init /\ [][Next]_vars

\* The interpreter runs a started my_func to its return statement.
FairSpec == Spec /\ WF_vars(MprofStep)

----------------------------------------------------------------------------
\* Properties

\* The input's row and column counts.
R == Shape(ARR)[1]
N == Shape(ARR)[2]

\* Sum over k < n of M[i][k] * M[j][k], M being the input.
RECURSIVE PartialDot(_, _, _)
PartialDot(i, j, n) ==
    IF n = 0 THEN 0
    ELSE PartialDot(i, j, n - 1) + At(ARR, i, n - 1) * At(ARR, j, n - 1)

\* Position of cell (i, j) in row-major order.
RowMajor(i, j) == i * R + j

AtReturn == pc = "return"
InNaiveLoop == pc = "loop" /\ script = "script_mprof"

\* C1: strategy equivalence.  For an input with R >= 1 and N >= 1, the matrix
\* any variant of my_func is about to return is fully written, equals the
\* matrix product script_dot.py computes, and equals the matrix the previous
\* call returned for the same input, whichever variant that call ran.
C1_StrategyEquivalence ==
    (AtReturn /\ R >= 1 /\ N >= 1) =>
        /\ uninit = {}
        /\ mem[result.buf] = MatMul(input_array, Transpose(input_array))
        /\ prev # NoArray => mem[prev.buf] = mem[result.buf]

C1_Witness ==
    /\ AtReturn
    /\ R = 2
    /\ N = 2
    /\ prevBy = "script_mprof"
    /\ script = "script_bcast_mprof"
    /\ At(result, 0, 1) > 0
    /\ mem[prev.buf] = mem[result.buf]

\* C2: the matrix my_func is about to return is R x R and its entry (i, j) is
\* the sum over k in 0..N-1 of M[i][k] * M[j][k], for every variant.
C2_GramMatrix ==
    AtReturn =>
        /\ uninit = {}
        /\ Shape(result) = <<R, R>>
        /\ Len(mem[result.buf].data) = R
        /\ \A i \in 0..(R - 1) :
            /\ Len(mem[result.buf].data[i + 1]) = R
            /\ \A j \in 0..(R - 1) : At(result, i, j) = PartialDot(i, j, N)

C2_Witness ==
    /\ AtReturn
    /\ script = "script_mprof"
    /\ mem[ARR.buf].data = <<<<1, 2>>, <<2, 1>>>>
    /\ mem[result.buf].data = <<<<5, 4>>, <<4, 5>>>>

\* C3: the matrix my_func is about to return is symmetric, for every variant.
C3_Symmetry ==
    AtReturn =>
        /\ uninit = {}
        /\ \A i, j \in 0..(Shape(result)[1] - 1) :
            At(result, i, j) = At(result, j, i)

C3_Witness ==
    /\ AtReturn
    /\ script = "script_bcast_mprof"
    /\ R = 2
    /\ At(result, 0, 1) > 0
    /\ At(result, 0, 0) # At(result, 1, 1)

\* C4 as stated: my_func does not return a value for an input with no rows.
C4_EmptyInputRejected ==
    AtReturn => R # 0

\* C4 as amended: for an input with R = 0 rows my_func raises nothing and
\* returns the empty 0 x 0 matrix.
C4_EmptyInputReturnsEmpty ==
    (pc \in {"loop", "body", "return"} /\ R = 0) =>
        /\ error = "none"
        /\ pc # "loop"
        /\ AtReturn =>
            /\ uninit = {}
            /\ mem[result.buf] = [shape |-> <<0, 0>>, data |-> << >>]

C4_Witness ==
    /\ AtReturn
    /\ script = "script_dot"
    /\ R = 0
    /\ N = 2

\* What the generator produced is a rows x cols matrix with entries in [0, High).
Generated(rows, cols) ==
    /\ pc # "error"
    /\ error = "none"
    /\ ARR # NoArray
    /\ ~ARR.T
    /\ mem[ARR.buf].shape = <<rows, cols>>
    /\ Len(mem[ARR.buf].data) = rows
    /\ \A i \in 1..rows :
        /\ Len(mem[ARR.buf].data[i]) = cols
        /\ \A k \in 1..cols : mem[ARR.buf].data[i][k] \in 0..(High - 1)

\* C5 as stated: the generator fails whenever the requested R or N is zero or
\* negative, and produces an R x N matrix with entries in 0..9 otherwise.
C5_NonPositiveRejected ==
    pc # "load" =>
        IF reqR <= 0 \/ reqN <= 0 THEN pc = "error" /\ error # "none"
        ELSE Generated(reqR, reqN)

\* C5 as amended: the generator fails (ValueError) whenever the requested R
\* or N is negative, and produces an R x N matrix with entries in 0..9
\* otherwise; for R = 0 or N = 0 that matrix is empty and nothing is raised.
C5_NegativeRejected ==
    pc # "load" =>
        IF reqR < 0 \/ reqN < 0 THEN pc = "error" /\ error = "ValueError"
        ELSE Generated(reqR, reqN)

C5_Witness ==
    /\ pc = "ready"
    /\ script = "none"
    /\ reqR = 2
    /\ reqN = 0
    /\ mem[ARR.buf] = [shape |-> <<2, 0>>, data |-> << << >>, << >> >>]

\* C6: for an input with R >= 1 rows and no columns, the matrix my_func is
\* about to return is R x R, fully written and all zero, for every variant.
C6_NoColumnsZero ==
    (AtReturn /\ R >= 1 /\ N = 0) =>
        /\ uninit = {}
        /\ mem[result.buf] =
             [shape |-> <<R, R>>,
              data  |-> [i \in 1..R |-> [j \in 1..R |-> 0]]]

C6_Witness ==
    /\ AtReturn
    /\ script = "my_script"
    /\ R = 2
    /\ N = 0
    /\ Len(writes) = 4

\* C7: with input entries in 0..9, every entry of the matrix about to be
\* returned is >= 0, and so is every cell of result at every point of the
\* naive loop.
C7_NonNegative ==
    (AtReturn \/ InNaiveLoop) =>
        /\ AtReturn => uninit = {}
        /\ \A i, j \in 0..(Shape(result)[1] - 1) : At(result, i, j) >= 0

C7_Witness ==
    /\ InNaiveLoop
    /\ rix = 1
    /\ eix = 1
    /\ At(result, rix, cix) > 0
    /\ At(result, 0, 1) > 0

\* C8: from the entry of a call on, the input buffer holds what it held at
\* entry; the result lives in a buffer of its own, shared neither with the
\* input nor with the result of the call before; and that earlier result,
\* still held by the caller, equals the matrix about to be returned.
C8_InputUnchangedFreshResult ==
    /\ script # "none" => mem[ARR.buf] = entry
    /\ result # NoArray =>
        /\ result.buf # ARR.buf
        /\ result.buf # prev.buf
        /\ result.buf \in DOMAIN mem
    /\ prev # NoArray =>
        /\ prev.buf # ARR.buf
        /\ prev.buf \in DOMAIN mem
        /\ AtReturn => mem[prev.buf] = mem[result.buf]

C8_Witness ==
    /\ AtReturn
    /\ prevBy = "script_dot"
    /\ script = "script_mprof"
    /\ R = 2
    /\ N = 2
    /\ steps = 8
    /\ At(result, 1, 0) > 0
    /\ At(ARR, 1, 0) > 0

\* The loop invariant of C9: whenever the naive loop is about to process element eix of cell
\* (rix, cix), that cell holds the partial sum over k < eix, every cell before
\* it in row-major order holds its full sum, every cell after it holds 0, and
\* (rix * R + cix) * N + eix accumulation steps have run; the loop reaches
\* the return statement, and has then run exactly R * R * N steps.
C9_LoopInvariant ==
    /\ InNaiveLoop =>
        /\ rix \in 0..(R - 1)
        /\ cix \in 0..(R - 1)
        /\ eix \in 0..(N - 1)
        /\ steps = RowMajor(rix, cix) * N + eix
        /\ \A i, j \in 0..(R - 1) :
            At(result, i, j) =
                IF RowMajor(i, j) < RowMajor(rix, cix) THEN PartialDot(i, j, N)
                ELSE IF RowMajor(i, j) = RowMajor(rix, cix)
                     THEN PartialDot(i, j, eix)
                     ELSE 0
    /\ (AtReturn /\ script = "script_mprof") => steps = R * R * N

\* C9: the loop invariant above holds in every state, and under the
\* interpreter's sequential execution a started naive loop reaches the return
\* statement.
C9_NaiveLoop ==
    /\ []C9_LoopInvariant
    /\ InNaiveLoop ~> (AtReturn /\ script = "script_mprof")

C9_Witness ==
    /\ InNaiveLoop
    /\ rix = 1
    /\ cix = 0
    /\ eix = 1
    /\ N = 2
    /\ At(result, 0, 1) > 0
    /\ At(result, 1, 0) > 0
    /\ At(result, 1, 0) < PartialDot(1, 0, N)

\* C10: in my_script.py every cell of the np.empty result is assigned exactly
\* once, in row-major order, before my_func returns: at the return statement
\* no cell is unwritten, and during the loop exactly the cells not yet
\* assigned are.
C10_EveryCellAssignedOnce ==
    script = "my_script" /\ pc \in {"loop", "return"} =>
        /\ \A k \in 1..Len(writes) : writes[k] = <<(k - 1) \div R, (k - 1) % R>>
        /\ uninit = Cells(R, R) \ {writes[k] : k \in 1..Len(writes)}
        /\ pc = "loop" => Len(writes) = RowMajor(rix, cix)
        /\ AtReturn => Len(writes) = R * R /\ uninit = {}

C10_Witness ==
    /\ AtReturn
    /\ script = "my_script"
    /\ R = 2
    /\ N = 1
    /\ writes = <<<<0, 0>>, <<0, 1>>, <<1, 0>>, <<1, 1>>>>
    /\ At(result, 0, 1) > 0

====
